---- MODULE Spec2Model ----
(***************************************************************************)
(* A model of the Vanish e-mail API client (vanish.py): VanishClient, its  *)
(* _request layer, the seven request/response operations built on it, and  *)
(* the poll_for_emails loop.                                               *)
(*                                                                         *)
(* Conventions.                                                            *)
(*  - Optional[T] is a sequence of length <= 1: None == <<>>, v is <<v>>.  *)
(*  - A str that ends up in a URL is a sequence of atoms.  An atom is one  *)
(*    character ("@", "/", "%", "4", ...) or a run of unreserved           *)
(*    characters written as one word ("mailbox", "limit", "20").           *)
(*  - The outcome of a call is [kind |-> "return", value |-> v] or         *)
(*    [kind |-> "raise", exc |-> e].                                       *)
(***************************************************************************)
EXTENDS Integers, Sequences, FiniteSets, TLC

VARIABLES
    ctor,          \* the arguments VanishClient(...) was constructed with
    cfg,           \* self.base_url, self.api_key, self.timeout
    pc,            \* per caller: "idle", "sent" (inside urlopen), "done"
    call,          \* per caller: the operation invoked and its arguments
    req,           \* per caller: the urllib Request handed to urlopen
    resp,          \* per caller: what urlopen did with it
    ret,           \* per caller: the outcome of the operation
    ppc,           \* poll_for_emails: position in the loop
    now,           \* time.time()
    start,         \* poll_for_emails: start
    drift,         \* time elapsed outside time.sleep since start
    timeout,       \* poll_for_emails argument
    interval,      \* poll_for_emails argument
    initial_count, \* poll_for_emails argument
    result,        \* outcome of the latest self.list_emails(address, limit=1)
    requested,     \* poll_for_emails has called list_emails
    slept,         \* poll_for_emails has called time.sleep
    pret           \* outcome of poll_for_emails

clientVars == <<ctor, cfg>>
callVars == <<pc, call, req, resp, ret>>
pollVars == <<ppc, now, start, drift, timeout, interval, initial_count,
              result, requested, slept, pret>>
vars == <<ctor, cfg, pc, call, req, resp, ret, ppc, now, start, drift, timeout,
          interval, initial_count, result, requested, slept, pret>>

(***************************************************************************)
(* Bounds of the model.                                                    *)
(***************************************************************************)
MaxLen == 2        \* atoms in an address, identifier or cursor argument
MaxTimeout == 2    \* largest poll timeout (seconds)
MaxInterval == 3   \* largest poll interval (seconds)
MaxCount == 1      \* largest initial_count
MaxTotal == 2      \* largest "total" a listing reports
MaxEpoch == 1      \* latest clock reading at which a poll starts

None == <<>>
Some(v) == <<v>>

Return(v) == [kind |-> "return", value |-> v]
Raise(e) == [kind |-> "raise", exc |-> e]
NoOutcome == [kind |-> "none"]

(***************************************************************************)
(* Strings.                                                                *)
(***************************************************************************)
\* Characters that arguments are drawn from: one unreserved character and
\* reserved ones.  Digits and "B", "D", "F" occur in percent-escapes only.
PathChars == {"a", "@", "+", "/", "?", "#", "%"}
CursorChars == {"a", "&", "=", "+", " ", "%"}

RECURSIVE StrsOver(_, _)
StrsOver(chars, n) ==
    IF n = 0 THEN {<<>>}
    ELSE LET shorter == StrsOver(chars, n - 1)
         IN  shorter \cup {Append(s, c) : s \in {t \in shorter : Len(t) = n - 1}, c \in chars}

Segs == StrsOver(PathChars, MaxLen) \ {<<>>}
Cursors == StrsOver(CursorChars, MaxLen)

\* The escape urllib.parse.quote writes for a character that is not safe.
PctEscape(c) ==
    CASE c = "@" -> <<"%", "4", "0">>
      [] c = "+" -> <<"%", "2", "B">>
      [] c = "/" -> <<"%", "2", "F">>
      [] c = "?" -> <<"%", "3", "F">>
      [] c = "#" -> <<"%", "2", "3">>
      [] c = "%" -> <<"%", "2", "5">>
      [] c = "&" -> <<"%", "2", "6">>
      [] c = "=" -> <<"%", "3", "D">>
      [] c = " " -> <<"%", "2", "0">>

Reserved == {"@", "+", "/", "?", "#", "%", "&", "=", " "}

\* urllib.parse.quote(s, safe): every character outside the unreserved set
\* and outside `safe` becomes its escape.
RECURSIVE quote(_, _)
quote(s, safe) ==
    IF s = <<>> THEN <<>>
    ELSE (IF Head(s) \in Reserved \ safe THEN PctEscape(Head(s)) ELSE <<Head(s)>>)
         \o quote(Tail(s), safe)

\* urllib.parse.quote_plus(s): quote with " " kept, then " " written as "+".
quote_plus(s) ==
    LET q == quote(s, {" "})
    IN  [i \in 1..Len(q) |-> IF q[i] = " " THEN "+" ELSE q[i]]

\* str(n) for an int n >= 0, one atom per decimal digit.
Digit(d) == CASE d = 0 -> "0" [] d = 1 -> "1" [] d = 2 -> "2" [] d = 3 -> "3"
              [] d = 4 -> "4" [] d = 5 -> "5" [] d = 6 -> "6" [] d = 7 -> "7"
              [] d = 8 -> "8" [] d = 9 -> "9"
RECURSIVE str(_)
str(n) == IF n < 10 THEN <<Digit(n)>> ELSE Append(str(n \div 10), Digit(n % 10))

\* base_url.rstrip("/")
RECURSIVE rstrip(_)
rstrip(s) ==
    IF s # <<>> /\ s[Len(s)] = "/" THEN rstrip(SubSeq(s, 1, Len(s) - 1)) ELSE s

RECURSIVE Join(_, _)
Join(parts, sep) ==
    IF parts = <<>> THEN <<>>
    ELSE IF Len(parts) = 1 THEN parts[1]
    ELSE parts[1] \o sep \o Join(Tail(parts), sep)

\* urllib.parse.urlencode(d) for a dict given as a sequence of <<key, value>>
\* in insertion order; a value is a str (sequence of atoms) already.
urlencode(items) ==
    Join([i \in 1..Len(items) |->
            quote_plus(items[i][1]) \o <<"=">> \o quote_plus(items[i][2])], <<"&">>)

(***************************************************************************)
(* VanishClient.__init__ and the request half of VanishClient._request.    *)
(***************************************************************************)
BaseUrls == {<<"http://h">>, <<"http://h", "/", "v1", "/", "/">>}
ApiKeys == {None, Some("key")}
Timeouts == {30}

CtorArgs == [base_url : BaseUrls, api_key : ApiKeys, timeout : Timeouts]

\* __init__: the three attributes of self.
NewClient(a) ==
    [base_url |-> rstrip(a.base_url), api_key |-> a.api_key, timeout |-> a.timeout]

\* Truth value of an Optional[str].
Truthy(o) == o # None /\ o[1] # ""

\* RequestUrl with the entries that are None sent as well, as str(None).
RequestUrlSendingNone(self, path, params) ==
    LET url == self.base_url \o path
    IN  IF params # None /\ params[1] # <<>>
        THEN LET query == urlencode([i \in 1..Len(params[1]) |->
                                <<params[1][i][1],
                                  IF params[1][i][2] = None THEN <<"None">>
                                  ELSE params[1][i][2][1]>>])
             IN  IF query # <<>> THEN url \o <<"?">> \o query ELSE url
        ELSE url

\* url = f"{self.base_url}{path}", then "?" and the query when `params` is a
\* non-empty dict whose non-None entries encode to a non-empty query.
\* `params` is None or Some(sequence of <<key, Optional value>>).
RequestUrl(self, path, params) ==
    LET url == self.base_url \o path
    IN  IF params # None /\ params[1] # <<>>
        THEN LET kept == SelectSeq(params[1], LAMBDA kv : kv[2] # None)
                 query == urlencode([i \in 1..Len(kept) |-> <<kept[i][1], kept[i][2][1]>>])
             IN  IF query # <<>> THEN url \o <<"?">> \o query ELSE url
        ELSE url

RequestHeaders(self) ==
    [content_type |-> "application/json",
     authorization |-> IF Truthy(self.api_key)
                       THEN Some(<<"Bearer", self.api_key[1]>>) ELSE None]

\* data = json.dumps(body).encode("utf-8") if body else None; a dict is the
\* set of its <<key, value>> items.
RequestData(body) == IF body # None /\ body[1] # {} THEN body ELSE None

\* The urllib.request.Request built from the arguments `a` of _request, with
\* the timeout urlopen is given.
Request(self, a) ==
    [method |-> a.method,
     url |-> RequestUrl(self, a.path, a.params),
     headers |-> RequestHeaders(self),
     data |-> RequestData(a.body),
     timeout |-> self.timeout]

(***************************************************************************)
(* The arguments each public operation passes to _request.                 *)
(***************************************************************************)
RequestArgs(method, path, params, body, raw_response) ==
    [method |-> method, path |-> path, params |-> params, body |-> body,
     raw_response |-> raw_response]

get_domains_args == RequestArgs("GET", <<"/", "domains">>, None, None, FALSE)

generate_email_args(domain, prefix) ==
    LET body == (IF Truthy(domain) THEN {<<"domain", domain[1]>>} ELSE {})
                \cup (IF Truthy(prefix) THEN {<<"prefix", prefix[1]>>} ELSE {})
    IN  RequestArgs("POST", <<"/", "mailbox">>, None,
                    IF body # {} THEN Some(body) ELSE None, FALSE)

list_emails_args(address, limit, cursor) ==
    LET encoded_address == quote(address, {})
    IN  RequestArgs("GET", <<"/", "mailbox", "/">> \o encoded_address,
                    Some(<< <<<<"limit">>, Some(str(limit))>>, <<<<"cursor">>, cursor>> >>),
                    None, FALSE)

get_email_args(email_id) ==
    RequestArgs("GET", <<"/", "email", "/">> \o email_id, None, None, FALSE)

get_attachment_args(email_id, attachment_id) ==
    RequestArgs("GET",
                <<"/", "email", "/">> \o email_id \o <<"/", "attachments", "/">> \o attachment_id,
                None, None, TRUE)

delete_email_args(email_id) ==
    RequestArgs("DELETE", <<"/", "email", "/">> \o email_id, None, None, FALSE)

delete_mailbox_args(address) ==
    LET encoded_address == quote(address, {})
    IN  RequestArgs("DELETE", <<"/", "mailbox", "/">> \o encoded_address, None, None, FALSE)

\* The _request arguments of a call record.
ArgsOf(c) ==
    CASE c.op = "get_domains" -> get_domains_args
      [] c.op = "generate_email" -> generate_email_args(c.domain, c.prefix)
      [] c.op = "list_emails" -> list_emails_args(c.address, c.limit, c.cursor)
      [] c.op = "get_email" -> get_email_args(c.email_id)
      [] c.op = "get_attachment" -> get_attachment_args(c.email_id, c.attachment_id)
      [] c.op = "delete_email" -> delete_email_args(c.email_id)
      [] c.op = "delete_mailbox" -> delete_mailbox_args(c.address)

(***************************************************************************)
(* What urlopen and resp.read() can do with a request.                     *)
(*   "response"       a 2xx response with a body                           *)
(*   "HTTPError"      urllib.error.HTTPError: a non-2xx status and a body  *)
(*   "URLError"       urllib.error.URLError: DNS failure, refused          *)
(*                    connection, timeout expiry while connecting          *)
(*   "socket.timeout" the timeout expiring while the response is read;     *)
(*                    urllib raises it as it is, it is no URLError         *)
(* A body is a JSON object (t = "object", with its fields), some other     *)
(* JSON value (a list, a string), text that is not JSON ("invalid"), or    *)
(* bytes that are not UTF-8 ("undecodable").                               *)
(***************************************************************************)
Object(f) == [t |-> "object", fields |-> f]
OtherBodies == {Object([other |-> 0]), [t |-> "list"], [t |-> "string"],
                [t |-> "invalid"], [t |-> "undecodable"]}
ErrorBodies == {Object([error |-> "mailbox not found"])} \cup OtherBodies
Statuses == {404, 500}
Reasons == {"dns", "refused", "timed out"}

E1 == [id |-> "e1", from |-> "x@d1"]
E2 == [id |-> "e2", from |-> "y@d1"]

\* Bodies of GET /mailbox/{address}: "data", "total" and an optional "nextCursor".
ListBodies(datas, totals, cursors) ==
    {Object([data |-> d, total |-> n]) : d \in datas, n \in totals}
    \cup {Object([data |-> d, total |-> n, nextCursor |-> k]) :
            d \in datas, n \in totals, k \in cursors}
    \cup {Object([data |-> d]) : d \in datas}

OkBodies(op) ==
    CASE op = "get_domains" -> {Object([domains |-> <<"d1", "d2">>])}
      [] op = "generate_email" -> {Object([email |-> "x@d1"])}
      [] op = "list_emails" ->
            ListBodies({<<E1>>}, {MaxTotal}, {<<>>, <<"a">>, <<"&">>})
      [] op = "get_email" -> {Object([id |-> "e1"]),
                              Object([id |-> "e1", attachments |-> <<"att1">>])}
      [] op = "get_attachment" -> {[t |-> "bytes"]}
      [] op = "delete_email" -> {Object([success |-> TRUE])}
      [] op = "delete_mailbox" -> {Object([deleted |-> 1])}

Failures ==
    {[kind |-> "HTTPError", status |-> st, body |-> b] : st \in Statuses, b \in ErrorBodies}
    \cup {[kind |-> "URLError", reason |-> r] : r \in Reasons}
    \cup {[kind |-> "socket.timeout"]}

Responses(op) ==
    {[kind |-> "response", body |-> b] : b \in OkBodies(op) \cup OtherBodies} \cup Failures

(***************************************************************************)
(* The response half of VanishClient._request.                             *)
(***************************************************************************)
VanishError(message, status_code) ==
    [type |-> "VanishError", message |-> message, status_code |-> status_code]
Exc(type) == [type |-> type]

\* str(e) of an HTTPError.
StatusText(st) == IF st = 404 THEN "HTTP Error 404: Not Found"
                  ELSE "HTTP Error 500: Internal Server Error"
ConnectionText(reason) ==
    CASE reason = "dns" -> "Connection error: dns"
      [] reason = "refused" -> "Connection error: refused"
      [] reason = "timed out" -> "Connection error: timed out"

\* json.loads(body.decode("utf-8"))
JsonLoads(b) ==
    CASE b.t = "undecodable" -> Raise(Exc("UnicodeDecodeError"))
      [] b.t = "invalid" -> Raise(Exc("JSONDecodeError"))
      [] OTHER -> Return(b)

\* except HTTPError: the message is error_body.get("error", str(e)); only
\* JSONDecodeError and UnicodeDecodeError fall back to str(e).
HTTPErrorOutcome(r) ==
    LET parsed == JsonLoads(r.body)
    IN  IF parsed.kind = "raise"
        THEN Raise(VanishError(StatusText(r.status), Some(r.status)))
        ELSE IF parsed.value.t = "object"
        THEN LET f == parsed.value.fields
             IN  Raise(VanishError(IF "error" \in DOMAIN f THEN f.error
                                   ELSE StatusText(r.status),
                                   Some(r.status)))
        ELSE Raise(Exc("AttributeError"))

\* The try statement of _request, given what urlopen did.
RequestOutcome(r, raw_response) ==
    CASE r.kind = "response" ->
            IF raw_response THEN Return([content |-> r.body, headers |-> "headers"])
            ELSE JsonLoads(r.body)
      [] r.kind = "HTTPError" -> HTTPErrorOutcome(r)
      [] r.kind = "URLError" -> Raise(VanishError(ConnectionText(r.reason), None))
      [] r.kind = "socket.timeout" -> Raise(Exc("TimeoutError"))

(***************************************************************************)
(* What each public operation makes of the value _request returns.         *)
(***************************************************************************)
\* resp[key] on a parsed body.
Subscript(v, key) ==
    IF v.t # "object" THEN Raise(Exc("TypeError"))
    ELSE IF key \in DOMAIN v.fields THEN Return(v.fields[key])
    ELSE Raise(Exc("KeyError"))

\* resp.get(key, default) on a parsed body.
Get(v, key, default) ==
    IF v.t # "object" THEN Raise(Exc("AttributeError"))
    ELSE IF key \in DOMAIN v.fields THEN Return(v.fields[key])
    ELSE Return(default)

EmailSummary(e) == [id |-> e.id, sender |-> e.from]

get_domains_result(v) == Subscript(v, "domains")

generate_email_result(v) == Subscript(v, "email")

list_emails_result(v) ==
    LET data == Subscript(v, "data")
        total == Subscript(v, "total")
    IN  IF data.kind = "raise" THEN data
        ELSE IF total.kind = "raise" THEN total
        ELSE Return([data |-> [i \in 1..Len(data.value) |-> EmailSummary(data.value[i])],
                     next_cursor |-> IF "nextCursor" \in DOMAIN v.fields
                                     THEN Some(v.fields.nextCursor) ELSE None,
                     total |-> total.value])

get_email_result(v) ==
    LET attachments == Get(v, "attachments", <<>>)
        id == Subscript(v, "id")
    IN  IF attachments.kind = "raise" THEN attachments
        ELSE IF id.kind = "raise" THEN id
        ELSE Return([id |-> id.value, attachments |-> attachments.value])

get_attachment_result(v) == Return(v)

delete_email_result(v) == Get(v, "success", FALSE)

delete_mailbox_result(v) == Get(v, "deleted", 0)

\* The outcome of the call `c` when urlopen does `r`.
Outcome(c, r) ==
    LET o == RequestOutcome(r, ArgsOf(c).raw_response)
    IN  IF o.kind = "raise" THEN o
        ELSE CASE c.op = "get_domains" -> get_domains_result(o.value)
               [] c.op = "generate_email" -> generate_email_result(o.value)
               [] c.op = "list_emails" -> list_emails_result(o.value)
               [] c.op = "get_email" -> get_email_result(o.value)
               [] c.op = "get_attachment" -> get_attachment_result(o.value)
               [] c.op = "delete_email" -> delete_email_result(o.value)
               [] c.op = "delete_mailbox" -> delete_mailbox_result(o.value)

(***************************************************************************)
(* Calls of the request/response operations.                               *)
(***************************************************************************)
Limits == {1, 20}
OptNames == {None, Some(""), Some("d1")}

OptLen(o) == IF o = None THEN 0 ELSE Len(o[1])

\* The calls whose string arguments come from `segs` (addresses and
\* identifiers) and `cursors`, at most `n` atoms per call in total.
Calls(segs, cursors, limits, names, n) ==
    {[op |-> "get_domains"]}
    \cup {[op |-> "generate_email", domain |-> d, prefix |-> q] : d \in names, q \in names}
    \cup {c \in [op : {"list_emails"}, address : segs, limit : limits,
                 cursor : {None} \cup {Some(k) : k \in cursors}, chained : {FALSE}] :
            Len(c.address) + OptLen(c.cursor) <= n}
    \cup {[op |-> "get_email", email_id |-> e] : e \in segs}
    \cup {c \in [op : {"get_attachment"}, email_id : segs, attachment_id : segs] :
            Len(c.email_id) + Len(c.attachment_id) <= n}
    \cup {[op |-> "delete_email", email_id |-> e] : e \in segs}
    \cup {[op |-> "delete_mailbox", address |-> a] : a \in segs}

AllCalls == Calls(Segs, Cursors, Limits, OptNames, MaxLen)

\* A small set of calls for runs with several callers.
FewCalls == Calls({<<"a", "@", "a">>}, {<<"a">>}, {1, 20}, {None, Some("d1")}, 4)

NoCall == [op |-> "none"]
NoRequest == None
NoResponse == [kind |-> "none"]

\* Send with _request keeping the URL it built in self.base_url.
SendStoringUrl(c, k) ==
    /\ pc' = [pc EXCEPT ![c] = "sent"]
    /\ call' = [call EXCEPT ![c] = k]
    /\ req' = [req EXCEPT ![c] = Some(Request(cfg, ArgsOf(k)))]
    /\ resp' = [resp EXCEPT ![c] = NoResponse]
    /\ ret' = [ret EXCEPT ![c] = NoOutcome]
    /\ cfg' = [cfg EXCEPT !.base_url = Request(cfg, ArgsOf(k)).url]
    /\ UNCHANGED <<ctor, pollVars>>

\* The caller `c` enters an operation: the operation builds its request from
\* self and its arguments and hands it to urlopen.
Send(c, k) ==
    /\ pc' = [pc EXCEPT ![c] = "sent"]
    /\ call' = [call EXCEPT ![c] = k]
    /\ req' = [req EXCEPT ![c] = Some(Request(cfg, ArgsOf(k)))]
    /\ resp' = [resp EXCEPT ![c] = NoResponse]
    /\ ret' = [ret EXCEPT ![c] = NoOutcome]
    /\ UNCHANGED <<clientVars, pollVars>>

Invoke(c, calls) == pc[c] = "idle" /\ \E k \in calls : Send(c, k)

\* The caller passes the next_cursor of the listing it just got to
\* list_emails, for the same address and limit.
NextPage(c) ==
    /\ pc[c] = "done"
    /\ call[c].op = "list_emails"
    /\ ret[c].kind = "return"
    /\ Send(c, [call[c] EXCEPT !.cursor = ret[c].value.next_cursor, !.chained = TRUE])

\* A smaller choice of what urlopen can do, for runs with several callers.
FewResponses(op) ==
    {[kind |-> "response", body |-> b] :
        b \in IF op = "list_emails"
              THEN ListBodies({<<E1>>}, {MaxTotal}, {<<"a">>}) ELSE OkBodies(op)}
    \cup {[kind |-> "HTTPError", status |-> 404,
           body |-> Object([error |-> "mailbox not found"])],
          [kind |-> "URLError", reason |-> "refused"],
          [kind |-> "socket.timeout"]}

\* urlopen comes back (returns or raises) and the operation finishes; `few`
\* selects the smaller choice of responses.
Respond(c, few) ==
    /\ pc[c] = "sent"
    /\ \E r \in IF few THEN FewResponses(call[c].op) ELSE Responses(call[c].op) :
          /\ resp' = [resp EXCEPT ![c] = r]
          /\ ret' = [ret EXCEPT ![c] = Outcome(call[c], r)]
    /\ pc' = [pc EXCEPT ![c] = "done"]
    /\ UNCHANGED <<call, req, clientVars, pollVars>>

\* The caller is done with the outcome of its call.
Discard(c) ==
    /\ pc[c] = "done"
    /\ pc' = [pc EXCEPT ![c] = "idle"]
    /\ call' = [call EXCEPT ![c] = NoCall]
    /\ req' = [req EXCEPT ![c] = NoRequest]
    /\ resp' = [resp EXCEPT ![c] = NoResponse]
    /\ ret' = [ret EXCEPT ![c] = NoOutcome]
    /\ UNCHANGED <<clientVars, pollVars>>

(***************************************************************************)
(* poll_for_emails.                                                        *)
(***************************************************************************)
PollAddress == <<"a", "@", "a">>

\* What urlopen can do with the request of list_emails(address, limit=1).
PollResponses ==
    {[kind |-> "response", body |-> b] :
        b \in ListBodies({<<>>, <<E1>>, <<E2, E1>>}, 0..MaxTotal, {<<"a">>}) \cup OtherBodies}
    \cup Failures

NotPolling ==
    /\ ppc = "none"
    /\ now = 0 /\ start = 0 /\ drift = 0
    /\ timeout = 0 /\ interval = 0 /\ initial_count = 0
    /\ result = NoOutcome /\ requested = FALSE /\ slept = FALSE
    /\ pret = NoOutcome

\* start = time.time()
PollStart ==
    /\ ppc = "call"
    /\ start' = now
    /\ ppc' = "while"
    /\ UNCHANGED <<now, drift, timeout, interval, initial_count, result, requested,
                   slept, pret, clientVars, callVars>>

\* PollWhile with the deadline itself still inside the loop.
PollWhileInclusive ==
    /\ ppc = "while"
    /\ IF now - start <= timeout
       THEN ppc' = "list" /\ pret' = pret
       ELSE ppc' = "done" /\ pret' = Return(None)
    /\ UNCHANGED <<now, start, drift, timeout, interval, initial_count, result,
                   requested, slept, clientVars, callVars>>

\* while time.time() - start < timeout: ... else fall out to `return None`.
PollWhile ==
    /\ ppc = "while"
    /\ IF now - start < timeout
       THEN ppc' = "list" /\ pret' = pret
       ELSE ppc' = "done" /\ pret' = Return(None)
    /\ UNCHANGED <<now, start, drift, timeout, interval, initial_count, result,
                   requested, slept, clientVars, callVars>>

\* PollList with the failure of a request swallowed and retried after the sleep.
PollListRetrying ==
    /\ ppc = "list"
    /\ \E r \in PollResponses :
          LET o == Outcome([op |-> "list_emails", address |-> PollAddress, limit |-> 1,
                            cursor |-> None, chained |-> FALSE], r)
          IN  /\ result' = o
              /\ ppc' = IF o.kind = "raise" THEN "sleep" ELSE "if"
    /\ requested' = TRUE
    /\ UNCHANGED <<now, start, drift, timeout, interval, initial_count, slept, pret,
                   clientVars, callVars>>

\* result = self.list_emails(address, limit=1); an exception leaves the loop
\* and the function.
PollList ==
    /\ ppc = "list"
    /\ \E r \in PollResponses :
          LET o == Outcome([op |-> "list_emails", address |-> PollAddress, limit |-> 1,
                            cursor |-> None, chained |-> FALSE], r)
          IN  /\ result' = o
              /\ IF o.kind = "raise"
                 THEN ppc' = "done" /\ pret' = o
                 ELSE ppc' = "if" /\ pret' = pret
    /\ requested' = TRUE
    /\ UNCHANGED <<now, start, drift, timeout, interval, initial_count, slept,
                   clientVars, callVars>>

\* The test of the loop body.
NewEmail(listing, count) == listing.total > count /\ listing.data # <<>>

\* PollIf with the count compared by >=.
PollIfAtLeast ==
    /\ ppc = "if"
    /\ IF result.value.total >= initial_count /\ result.value.data # <<>>
       THEN ppc' = "done" /\ pret' = Return(Some(result.value.data[1]))
       ELSE ppc' = "sleep" /\ pret' = pret
    /\ UNCHANGED <<now, start, drift, timeout, interval, initial_count, result,
                   requested, slept, clientVars, callVars>>

\* if result.total > initial_count and result.data: return result.data[0]
PollIf ==
    /\ ppc = "if"
    /\ IF NewEmail(result.value, initial_count)
       THEN ppc' = "done" /\ pret' = Return(Some(result.value.data[1]))
       ELSE ppc' = "sleep" /\ pret' = pret
    /\ UNCHANGED <<now, start, drift, timeout, interval, initial_count, result,
                   requested, slept, clientVars, callVars>>

\* PollSleep with a second sleep of the same length.
PollSleepTwice ==
    /\ ppc = "sleep"
    /\ now' = now + interval + interval
    /\ slept' = TRUE
    /\ ppc' = "while"
    /\ UNCHANGED <<start, drift, timeout, interval, initial_count, result, requested,
                   pret, clientVars, callVars>>

\* time.sleep(interval)
PollSleep ==
    /\ ppc = "sleep"
    /\ now' = now + interval
    /\ slept' = TRUE
    /\ ppc' = "while"
    /\ UNCHANGED <<start, drift, timeout, interval, initial_count, result, requested,
                   pret, clientVars, callVars>>

\* Time passing outside time.sleep, while a request is under way or between
\* two statements: the clock moves on by one second.
Tick ==
    /\ ppc \in {"while", "list", "if", "sleep"}
    /\ drift <= MaxTimeout
    /\ now' = now + 1
    /\ drift' = drift + 1
    /\ UNCHANGED <<ppc, start, timeout, interval, initial_count, result, requested,
                   slept, pret, clientVars, callVars>>

PollStep == PollStart \/ PollWhile \/ PollList \/ PollIf \/ PollSleep

(***************************************************************************)
(* Specifications.                                                         *)
(***************************************************************************)
InitClient(args) ==
    /\ ctor \in args
    /\ cfg = NewClient(ctor)

InitCallers(callers) ==
    /\ pc = [c \in callers |-> "idle"]
    /\ call = [c \in callers |-> NoCall]
    /\ req = [c \in callers |-> NoRequest]
    /\ resp = [c \in callers |-> NoResponse]
    /\ ret = [c \in callers |-> NoOutcome]

\* One caller, every call within the bounds.
Init ==
    /\ InitClient({a \in CtorArgs : a.api_key = None <=> a.base_url = <<"http://h">>})
    /\ InitCallers({1})
    /\ NotPolling

Next ==
    \/ Invoke(1, AllCalls)
    \/ NextPage(1)
    \/ Respond(1, FALSE)
    \/ Discard(1)

Spec == Init /\ [][Next]_vars

\* Two callers sharing one client.
InitShared == InitClient(CtorArgs) /\ InitCallers({1, 2}) /\ NotPolling

NextShared ==
    \E c \in {1, 2} :
        \/ Invoke(c, FewCalls)
        \/ NextPage(c)
        \/ Respond(c, TRUE)
        \/ Discard(c)

SpecShared == InitShared /\ [][NextShared]_vars

\* One call of poll_for_emails.
InitPoll ==
    /\ InitClient({[base_url |-> <<"http://h">>, api_key |-> None, timeout |-> 30]})
    /\ InitCallers({})
    /\ ppc = "call"
    /\ now \in 0..MaxEpoch
    /\ start = 0 /\ drift = 0
    /\ timeout \in -1..MaxTimeout
    /\ interval \in 0..MaxInterval
    /\ initial_count \in 0..MaxCount
    /\ result = NoOutcome /\ requested = FALSE /\ slept = FALSE
    /\ pret = NoOutcome

NextPoll == PollStart \/ PollWhile \/ PollList \/ PollIf \/ PollSleep \/ Tick

SpecPoll == InitPoll /\ [][NextPoll]_vars

\* The interpreter keeps running the call, and the clock keeps moving.
FairSpecPoll == SpecPoll /\ WF_vars(PollStep) /\ WF_vars(Tick)

(***************************************************************************)
(* Properties of poll_for_emails, under SpecPoll and FairSpecPoll.         *)
(***************************************************************************)
Elapsed == now - start
Max(a, b) == IF a >= b THEN a ELSE b
Found == ppc = "done" /\ pret.kind = "return" /\ pret.value # None
TimedOut == ppc = "done" /\ pret.kind = "return" /\ pret.value = None
Raised == ppc = "done" /\ pret.kind = "raise"
SleepReturns == ppc = "sleep" /\ ppc' = "while"

\* C1: the total wait is bounded by timeout.  Every sleep lasts at most the
\* time remaining until the deadline, so that with instantaneous requests
\* (no time passes outside the sleeps) a call that entered its loop never
\* runs past start + timeout, whatever the interval.
C1_WaitBoundedByTimeout ==
    /\ [][SleepReturns => now' - now <= Max(0, timeout - Elapsed)]_vars
    /\ [](ppc # "call" /\ drift = 0 /\ timeout > 0 => Elapsed <= timeout)

\* C2: with timeout > 0, interval > 0 and instantaneous requests the call
\* never runs past start + timeout + interval, and when its checks found no
\* new email and no request failed it ends with the timed-out sentinel None.
C2_TimedOutWithinOneExtraInterval ==
    (ppc # "call" /\ timeout > 0 /\ interval > 0 /\ drift = 0) =>
        /\ Elapsed <= timeout + interval
        /\ (ppc = "done" /\ (result.kind = "none" \/
                             (result.kind = "return"
                              /\ ~NewEmail(result.value, initial_count)))
              => pret = Return(None))

C2_Witness ==
    /\ TimedOut /\ drift = 0 /\ slept
    /\ timeout = 1 /\ interval = 3 /\ Elapsed = 3

\* C3: a check that finds total > initial_count and a non-empty data ends the
\* call at once with data[0] of that result: no sleep, no further request.  Any
\* other check returns nothing and is followed by a sleep of interval.  Once
\* the call has returned nothing more happens.
C3_ReturnsFirstNewEmailAtOnce ==
    /\ [](Found => /\ result.kind = "return"
                   /\ NewEmail(result.value, initial_count)
                   /\ pret.value = Some(result.value.data[1]))
    /\ [][/\ (ppc = "if" /\ NewEmail(result.value, initial_count)) =>
                \/ (ppc' = "if" /\ result' = result)
                \/ (ppc' = "done" /\ pret' = Return(Some(result.value.data[1]))
                    /\ now' = now /\ slept' = slept /\ result' = result)
          /\ (ppc = "if" /\ ~NewEmail(result.value, initial_count)) =>
                \/ (ppc' = "if" /\ result' = result /\ pret' = pret)
                \/ (ppc' = "sleep" /\ pret' = pret /\ result' = result)
          /\ ppc = "sleep" =>
                \/ (ppc' = "sleep" /\ result' = result /\ pret' = pret)
                \/ (ppc' = "while" /\ now' = now + interval /\ pret' = pret)
          /\ ppc = "done" => UNCHANGED vars]_vars

C3_Witness ==
    /\ Found /\ slept
    /\ result.value.data = <<EmailSummary(E2), EmailSummary(E1)>>
    /\ pret.value = Some(EmailSummary(E2))

\* C4: when a list_emails call inside the poll fails, the poll ends at once
\* with that very error: it is not followed by a sleep or a request, and the
\* outcome is neither an email nor None.  Whenever the loop goes on after a
\* request, that request returned a listing without a new email.
C4_ErrorEndsThePoll ==
    /\ (result.kind = "raise" => ppc = "done" /\ pret = result)
    /\ (requested /\ ppc \in {"sleep", "while", "list"} =>
            result.kind = "return" /\ ~NewEmail(result.value, initial_count))

C4_Witness ==
    /\ Raised /\ slept
    /\ pret.exc.type = "VanishError" /\ pret.exc.status_code = None
    /\ pret = result

\* C10: the call ends, in exactly one of FOUND, TIMED_OUT or a raised error,
\* for every timeout and every interval >= 0 (the clock advancing and each
\* request completing); with timeout <= 0 it ends TIMED_OUT without a
\* request and without a sleep.
C10_PollTerminates ==
    /\ <>(ppc = "done")
    /\ [](ppc = "done" =>
            /\ (Found \/ TimedOut \/ Raised)
            /\ ~(Found /\ TimedOut) /\ ~(Found /\ Raised) /\ ~(TimedOut /\ Raised))
    /\ [](timeout <= 0 /\ ppc \notin {"call", "while"} =>
            TimedOut /\ ~requested /\ ~slept)

C10_Witness ==
    /\ TimedOut /\ interval = 0 /\ timeout = MaxTimeout /\ requested /\ slept

(***************************************************************************)
(* How the server reads a URL: the inverse of the encodings above.         *)
(***************************************************************************)
\* urllib.parse.unquote: "%XY" back to the character it escapes.
RECURSIVE unquote(_)
unquote(s) ==
    IF s = <<>> THEN <<>>
    ELSE IF Len(s) >= 3 /\ \E c \in Reserved : PctEscape(c) = SubSeq(s, 1, 3)
    THEN <<CHOOSE c \in Reserved : PctEscape(c) = SubSeq(s, 1, 3)>>
         \o unquote(SubSeq(s, 4, Len(s)))
    ELSE <<Head(s)>> \o unquote(Tail(s))

\* urllib.parse.unquote_plus: "+" is a space.
unquote_plus(s) == unquote([i \in 1..Len(s) |-> IF s[i] = "+" THEN " " ELSE s[i]])

\* The index of the first atom of s that is in `seps`, or Len(s) + 1.
RECURSIVE Find(_, _, _)
Find(s, seps, i) ==
    IF i > Len(s) \/ s[i] \in seps THEN i ELSE Find(s, seps, i + 1)

\* s cut at every atom `sep`.
RECURSIVE Split(_, _)
Split(s, sep) ==
    LET i == Find(s, {sep}, 1)
    IN  IF i > Len(s) THEN <<s>>
        ELSE <<SubSeq(s, 1, i - 1)>> \o Split(SubSeq(s, i + 1, Len(s)), sep)

\* The part of the URL of `r` after the client's base URL.
Target(self, r) == SubSeq(r.url, Len(self.base_url) + 1, Len(r.url))

\* Its path: up to the first "?" or "#".
PathOf(t) == SubSeq(t, 1, Find(t, {"?", "#"}, 1) - 1)

\* The decoded segments of a path "/s1/s2/...".
SegmentsOf(path) ==
    LET parts == Tail(Split(path, "/"))
    IN  [i \in 1..Len(parts) |-> unquote(parts[i])]

\* The decoded <<key, value>> pairs of its query string; <<>> without one.
QueryOf(t) ==
    LET i == Find(t, {"?"}, 1)
    IN  IF i > Len(t) THEN <<>>
        ELSE LET items == Split(SubSeq(t, i + 1, Len(t)), "&")
             IN  [j \in 1..Len(items) |->
                    LET e == Find(items[j], {"="}, 1)
                    IN  <<unquote_plus(SubSeq(items[j], 1, e - 1)),
                          unquote_plus(SubSeq(items[j], e + 1, Len(items[j])))>>]

\* The path segments the operation is meant to address.
IntendedSegments(c) ==
    CASE c.op = "list_emails" -> <<<<"mailbox">>, c.address>>
      [] c.op = "delete_mailbox" -> <<<<"mailbox">>, c.address>>
      [] c.op = "get_email" -> <<<<"email">>, c.email_id>>
      [] c.op = "delete_email" -> <<<<"email">>, c.email_id>>
      [] c.op = "get_attachment" ->
            <<<<"email">>, c.email_id, <<"attachments">>, c.attachment_id>>

PathOps == {"list_emails", "delete_mailbox", "get_email", "delete_email", "get_attachment"}

(***************************************************************************)
(* Properties of the request/response operations, under Spec.              *)
(***************************************************************************)
\* C5: whatever the body of a non-2xx response, the operation raises a
\* VanishError whose status_code is the HTTP status and whose message is the
\* body's "error" field when the body is a JSON object that has one, and the
\* status description otherwise.
C5_HttpErrorIsVanishError ==
    \A c \in DOMAIN pc :
        (pc[c] = "done" /\ resp[c].kind = "HTTPError") =>
            LET b == resp[c].body
            IN  ret[c] = Raise(VanishError(
                            IF b.t = "object" /\ "error" \in DOMAIN b.fields
                            THEN b.fields.error ELSE StatusText(resp[c].status),
                            Some(resp[c].status)))

\* C6: every transport failure of a request, the timeout expiring while the
\* response is read included, surfaces as a VanishError without status code.
C6_TransportFailureIsVanishError ==
    \A c \in DOMAIN pc :
        (pc[c] = "done" /\ resp[c].kind \in {"URLError", "socket.timeout"}) =>
            /\ ret[c].kind = "raise"
            /\ ret[c].exc.type = "VanishError"
            /\ ret[c].exc.status_code = None

\* C7: a listing without nextCursor has next_cursor = None, and a
\* list_emails call given the cursor None sends "limit" as its only query
\* parameter, while a cursor that is present reaches the server as it was
\* given.
C7_AbsentCursorIsOmitted ==
    \A c \in DOMAIN pc :
        (pc[c] \in {"sent", "done"} /\ call[c].op = "list_emails") =>
            /\ QueryOf(Target(cfg, req[c][1])) =
                  <<<<<<"limit">>, str(call[c].limit)>>>>
                  \o (IF call[c].cursor = None THEN <<>>
                      ELSE <<<<<<"cursor">>, call[c].cursor[1]>>>>)
            /\ (pc[c] = "done" /\ ret[c].kind = "return") =>
                  ret[c].value.next_cursor =
                      (IF "nextCursor" \in DOMAIN resp[c].body.fields
                       THEN Some(resp[c].body.fields.nextCursor) ELSE None)

C7_Witness ==
    \E c \in DOMAIN pc :
        /\ pc[c] = "sent" /\ call[c].op = "list_emails"
        /\ call[c].chained /\ call[c].cursor = None
        /\ Target(cfg, req[c][1]) =
              <<"/", "mailbox", "/", "a", "%", "4", "0", "?", "limit", "=", "2", "0">>

\* C8: the address or identifier an operation puts into the URL path
\* occupies exactly one path segment, and decoding that segment gives the
\* value back.
C8_PathValuesAreEscaped ==
    \A c \in DOMAIN pc :
        (pc[c] = "sent" /\ call[c].op \in PathOps) =>
            SegmentsOf(PathOf(Target(cfg, req[c][1]))) = IntendedSegments(call[c])

(***************************************************************************)
(* Two callers on one client, under SpecShared.                            *)
(***************************************************************************)
\* C9: no operation changes base_url, api_key or timeout, so that whatever
\* the other caller does, a call's request is the one it builds from the
\* client as constructed and its outcome the one that request's response
\* gives it.
C9_ConfigurationIsImmutable ==
    /\ cfg = NewClient(ctor)
    /\ \A c \in DOMAIN pc :
          /\ pc[c] \in {"sent", "done"} =>
                req[c] = Some(Request(NewClient(ctor), ArgsOf(call[c])))
          /\ pc[c] = "done" => ret[c] = Outcome(call[c], resp[c])

C9_Witness ==
    /\ pc[1] = "sent" /\ pc[2] = "done"
    /\ call[1].op = "delete_mailbox" /\ call[2].op = "list_emails"
    /\ ret[2].kind = "raise"
    /\ ctor.base_url # cfg.base_url

====
